---- MODULE Spec2Model ----
(***************************************************************************)
(* Seat-reservation handlers of the cine reservation API                   *)
(* (src/api/views/views.py): create_reservation, add_showing_movie and     *)
(* delete_movie, each run by concurrent requests against one relational    *)
(* store.  A request owns a private ORM session: what it reads is the      *)
(* committed store at the time of the SELECT, what it writes becomes       *)
(* visible to the others at db.session.commit(), all at once.  Every SQL   *)
(* round trip of a handler is one step of the model, so that other         *)
(* requests interleave exactly where the code talks to the store.          *)
(*                                                                         *)
(* The table declarations (api/models/models.py) are not among the sources *)
(* at hand: the unique constraint on movie.room and the foreign key        *)
(* reservation.movie_id -> movie.id are taken from the data model's        *)
(* description (RoomUnique, ForeignKeyHolds).                              *)
(***************************************************************************)
EXTENDS Integers, Sequences, FiniteSets, TLC

\* Number of HTTP requests served in one behaviour.
MaxRequests == 3

Requests == 1..MaxRequests
\* Primary keys a request may name: those the store can hand out, so that some
\* exist and some do not.
MovieIds == 1..MaxRequests
Users == {1, 2}
Rooms == {"A", "B"}

\* A JSON field of the request body as data.get() returns it: <<>> is None
\* (the key is missing), <<v>> is the value v.
TitleInputs == {<<>>, <<"Dune">>}
RoomInputs == {<<>>} \cup {<<x>> : x \in Rooms}
SeatsInputs == {<<>>} \cup {<<n>> : n \in {-1, 0, 1, 2}}

VARIABLES
    movies,             \* table movie: committed rows [id, title, room, seats]
    reservations,       \* table reservation: committed rows [id, movie_id, user_id, room_select]
    nextMovieId,        \* autoincrement of movie.id
    nextReservationId,  \* autoincrement of reservation.id
    created,            \* history: [id, seats] of every showing ever created (its total seats)
    pc,                 \* per request: where its handler stands
    op,                 \* per request: the handler it runs
    args,               \* per request: the request body / path parameter
    local,              \* per request: the handler's locals (its session's objects)
    status              \* per request: the HTTP status returned, 0 while none

vars == <<movies, reservations, nextMovieId, nextReservationId, created,
          pc, op, args, local, status>>

store == <<movies, reservations, nextMovieId, nextReservationId, created>>

NoArgs == [none |-> TRUE]

-----------------------------------------------------------------------------
(* Pure pieces of the handlers *)

\* Python truth of a string field: `not title` is true of None and of "".
TruthyStr(x) == x # <<>> /\ x[1] # ""

\* Python truth of an integer field: `not seats` is true of None and of 0.
TruthyInt(x) == x # <<>> /\ x[1] # 0

\* Movie.query.get(movie_id): <<row>>, or <<>> (None) when no row has the key.
MovieQueryGet(ms, movie_id) ==
    IF \E m \in ms : m.id = movie_id
    THEN <<CHOOSE m \in ms : m.id = movie_id>>
    ELSE <<>>

ReservationCheckWrongStatus(movie) ==
    IF movie = <<>> THEN 400
    ELSE IF movie[1].seats <= 0 THEN 400
    ELSE 0

\* create_reservation's early returns: 404 without the movie, 400 without a
\* seat, 0 to go on.
ReservationCheck(movie) ==
    IF movie = <<>> THEN 404
    ELSE IF movie[1].seats <= 0 THEN 400
    ELSE 0

\* movie.seats -= 1, on the object the session loaded.
DecrementedSeats(movie) == movie.seats - 1

\* models.Reservation(movie_id=..., user_id=..., room_select=movie.room)
NewReservation(id, movie_id, user_id, movie) ==
    [id |-> id, movie_id |-> movie_id, user_id |-> user_id, room_select |-> movie.room]

RowMatchedUnchecked(ms, movie_id) == TRUE

\* The flush of the modified movie: UPDATE movie SET seats=? WHERE movie.id=?
\* must match the row the session loaded, or the unit of work raises and the
\* transaction is rolled back.
RowMatched(ms, movie_id) == \E m \in ms : m.id = movie_id

UpdateSeatsEveryRow(ms, movie_id, seats) ==
    {[m EXCEPT !.seats = seats] : m \in ms}

\* UPDATE movie SET seats = <seats> WHERE id = <movie_id>
UpdateSeats(ms, movie_id, seats) ==
    {IF m.id = movie_id THEN [m EXCEPT !.seats = seats] ELSE m : m \in ms}

\* `if not title or not room or not seats`
ShowingInvalid(title, room, seats) ==
    ~TruthyStr(title) \/ ~TruthyStr(room) \/ ~TruthyInt(seats)

FilterByRoomNone(ms, room) == {}

\* Movie.query.filter_by(room=room)
FilterByRoom(ms, room) == {m \in ms : m.room = room}

\* models.Movie(title=title, description=description, room=room, seats=seats)
NewMovie(id, title, room, seats) ==
    [id |-> id, title |-> title, room |-> room, seats |-> seats]

\* Reservation.query.filter_by(movie_id=movie_id)
FilterByMovieId(rs, movie_id) == {x \in rs : x.movie_id = movie_id}

DeleteMovieRowForgotten(ms, movie_id) == ms

\* db.session.delete(movie), flushed as DELETE FROM movie WHERE id = ?
DeleteMovieRow(ms, movie_id) == {m \in ms : m.id # movie_id}

\* The store's unique constraint on movie.room.
RoomUnique(ms, room) == \A m \in ms : m.room # room

\* The store's foreign key reservation.movie_id -> movie.id: the movie row
\* cannot go while a row the transaction did not delete still references it.
ForeignKeyHolds(ms, rs, movie_id, deleted) ==
    MovieQueryGet(ms, movie_id) = <<>>
        \/ FilterByMovieId(rs, movie_id) \subseteq deleted

-----------------------------------------------------------------------------
(* The store after create_app(): db.create_all() on an empty database *)

Init ==
    /\ movies = {}
    /\ reservations = {}
    /\ nextMovieId = 1
    /\ nextReservationId = 1
    /\ created = {}
    /\ pc = [r \in Requests |-> "idle"]
    /\ op = [r \in Requests |-> "none"]
    /\ args = [r \in Requests |-> NoArgs]
    /\ local = [r \in Requests |-> NoArgs]
    /\ status = [r \in Requests |-> 0]

\* Requests are taken in the order of their numbers (a request's number is
\* only its name).
Arrives(r) == pc[r] = "idle" /\ (IF r = 1 THEN TRUE ELSE pc[r - 1] # "idle")

Return(r, code) ==
    /\ pc' = [pc EXCEPT ![r] = "done"]
    /\ status' = [status EXCEPT ![r] = code]

-----------------------------------------------------------------------------
(* POST /reservations *)

\* The body is read, the movie is loaded, and the two early returns.
ReservationRead(r) ==
    /\ Arrives(r)
    /\ \E movie_id \in MovieIds, user_id \in Users :
        LET movie == MovieQueryGet(movies, movie_id)
            code == ReservationCheck(movie)
        IN  /\ op' = [op EXCEPT ![r] = "create_reservation"]
            /\ args' = [args EXCEPT ![r] = [movie_id |-> movie_id, user_id |-> user_id]]
            /\ IF code # 0
               THEN /\ Return(r, code)
                    /\ local' = local
               ELSE /\ pc' = [pc EXCEPT ![r] = "reservation_commit"]
                    /\ local' = [local EXCEPT ![r] = [movie |-> movie[1]]]
                    /\ status' = status
    /\ UNCHANGED store

\* movie.seats -= 1, the new Reservation, and the commit: the UPDATE and the
\* INSERT of one transaction.
ReservationCommit(r) ==
    /\ pc[r] = "reservation_commit"
    /\ LET movie == local[r].movie
           movie_id == args[r].movie_id
       IN  IF RowMatched(movies, movie_id)
           THEN /\ movies' = UpdateSeats(movies, movie_id, DecrementedSeats(movie))
                /\ reservations' = reservations \cup
                     {NewReservation(nextReservationId, movie_id, args[r].user_id, movie)}
                /\ nextReservationId' = nextReservationId + 1
                /\ Return(r, 201)
           ELSE /\ UNCHANGED <<movies, reservations, nextReservationId>>
                /\ Return(r, 500)
    /\ UNCHANGED <<nextMovieId, created, op, args, local>>

-----------------------------------------------------------------------------
(* POST /showing_movies *)

\* The body is read and validated, and the room is looked up.
ShowingCheck(r) ==
    /\ Arrives(r)
    /\ \E title \in TitleInputs, room \in RoomInputs, seats \in SeatsInputs :
        /\ op' = [op EXCEPT ![r] = "add_showing_movie"]
        /\ args' = [args EXCEPT ![r] = [title |-> title, room |-> room, seats |-> seats]]
        /\ IF ShowingInvalid(title, room, seats)
           THEN Return(r, 400)
           ELSE IF FilterByRoom(movies, room[1]) # {}
           THEN Return(r, 400)
           ELSE /\ pc' = [pc EXCEPT ![r] = "showing_commit"]
                /\ status' = status
    /\ UNCHANGED <<store, local>>

\* The new Movie is added and committed.
ShowingCommit(r) ==
    /\ pc[r] = "showing_commit"
    /\ LET room == args[r].room[1]
           seats == args[r].seats[1]
       IN  IF RoomUnique(movies, room)
           THEN /\ movies' = movies \cup
                     {NewMovie(nextMovieId, args[r].title[1], room, seats)}
                /\ created' = created \cup {[id |-> nextMovieId, seats |-> seats]}
                /\ nextMovieId' = nextMovieId + 1
                /\ Return(r, 201)
           ELSE /\ UNCHANGED <<movies, created, nextMovieId>>
                /\ Return(r, 500)
    /\ UNCHANGED <<reservations, nextReservationId, op, args, local>>

-----------------------------------------------------------------------------
(* DELETE /movies/<movie_id> *)

\* The movie is loaded, 404 without it.
DeleteRead(r) ==
    /\ Arrives(r)
    /\ \E movie_id \in MovieIds :
        /\ op' = [op EXCEPT ![r] = "delete_movie"]
        /\ args' = [args EXCEPT ![r] = [movie_id |-> movie_id]]
        /\ IF MovieQueryGet(movies, movie_id) = <<>>
           THEN Return(r, 404)
           ELSE /\ pc' = [pc EXCEPT ![r] = "delete_bulk"]
                /\ status' = status
    /\ UNCHANGED <<store, local>>

\* The bulk DELETE of the movie's reservations: it runs at once, inside the
\* request's transaction, on the rows committed by then.
DeleteBulk(r) ==
    /\ pc[r] = "delete_bulk"
    /\ local' = [local EXCEPT ![r] =
                    [deleted |-> FilterByMovieId(reservations, args[r].movie_id)]]
    /\ pc' = [pc EXCEPT ![r] = "delete_commit"]
    /\ UNCHANGED <<store, op, args, status>>

\* The movie is deleted and the transaction committed.
DeleteCommit(r) ==
    /\ pc[r] = "delete_commit"
    /\ LET movie_id == args[r].movie_id
           deleted == local[r].deleted
       IN  IF ForeignKeyHolds(movies, reservations, movie_id, deleted)
           THEN /\ movies' = DeleteMovieRow(movies, movie_id)
                /\ reservations' = reservations \ deleted
                /\ Return(r, 200)
           ELSE /\ UNCHANGED <<movies, reservations>>
                /\ Return(r, 500)
    /\ UNCHANGED <<nextMovieId, nextReservationId, created, op, args, local>>

-----------------------------------------------------------------------------

Next ==
    \E r \in Requests :
        \/ ReservationRead(r)
        \/ ReservationCommit(r)
        \/ ShowingCheck(r)
        \/ ShowingCommit(r)
        \/ DeleteRead(r)
        \/ DeleteBulk(r)
        \/ DeleteCommit(r)

Spec == Init /\ [][Next]_vars

-----------------------------------------------------------------------------
(* Vocabulary of the properties *)

\* The seat count showing `id` was created with.
TotalSeats(id) == (CHOOSE c \in created : c.id = id).seats

\* The rows of a table that concern one showing.
ShowingRows(ms, id) == {m \in ms : m.id = id}
ReservationRows(rs, id) == {x \in rs : x.movie_id = id}

\* The reservation requests on showing `id` answered 201.
SuccessfulReservations(id) ==
    {r \in Requests : /\ op[r] = "create_reservation"
                      /\ status[r] = 201
                      /\ args[r].movie_id = id}

\* Request r takes a step.
Steps(r) == pc'[r] # pc[r]

\* What the specification calls an invalid create_showing input.
MissingOrNonPositive(a) ==
    \/ a.title = <<>>
    \/ a.room = <<>>
    \/ a.seats = <<>>
    \/ (a.seats # <<>> /\ a.seats[1] <= 0)

-----------------------------------------------------------------------------
(* The claims *)

\* C1: of the reservation requests on a showing created with exactly one
\* seat, whatever the interleaving of their reads and commits, at most one is
\* answered 201: two never both succeed.
C1_NeverBothSucceed ==
    \A c \in created :
        c.seats = 1 => Cardinality(SuccessfulReservations(c.id)) <= 1

\* C2: in every reachable state every showing has
\* 0 <= remaining seats <= total seats, and no more live reservations than
\* total seats.
C2_SeatBounds ==
    \A m \in movies :
        /\ 0 <= m.seats
        /\ m.seats <= TotalSeats(m.id)
        /\ Cardinality(ReservationRows(reservations, m.id)) <= TotalSeats(m.id)

\* C3: after N successful reservations on a showing (one created with a seat
\* count that is a count, none below zero) its remaining seats are
\* total seats - N, and never more than total seats reservations succeed.
C3_SeatsAccountForSuccesses ==
    \A m \in movies :
        TotalSeats(m.id) >= 0 =>
            /\ m.seats = TotalSeats(m.id) - Cardinality(SuccessfulReservations(m.id))
            /\ Cardinality(SuccessfulReservations(m.id)) <= TotalSeats(m.id)

\* C4: the step in which a reservation succeeds lowers the showing's stored
\* remaining seats by exactly 1 and adds exactly one reservation row, bound to
\* that showing and user; no step does only one of the two.
C4_DecrementAndRecordTogether ==
    [][\A r \in Requests :
         (pc[r] = "reservation_commit" /\ status'[r] = 201) =>
            /\ \E m \in movies, n \in movies' :
                 /\ m.id = args[r].movie_id
                 /\ n.id = m.id
                 /\ n.seats = m.seats - 1
            /\ reservations \subseteq reservations'
            /\ \E x \in reservations' \ reservations :
                 /\ reservations' = reservations \cup {x}
                 /\ x.movie_id = args[r].movie_id
                 /\ x.user_id = args[r].user_id]_vars

\* C5: the step in which delete_showing(S) succeeds leaves neither S nor any
\* reservation of S; whenever a showing goes, no reservation of it stays; and
\* a reservation only ever goes together with its showing.
C5_DeleteIsAtomic ==
    [][/\ \A r \in Requests :
            (pc[r] = "delete_commit" /\ status'[r] = 200) =>
                /\ ShowingRows(movies', args[r].movie_id) = {}
                /\ ReservationRows(reservations', args[r].movie_id) = {}
       /\ \A id \in MovieIds :
            /\ (ShowingRows(movies, id) # {} /\ ShowingRows(movies', id) = {})
                   => ReservationRows(reservations', id) = {}
            /\ ShowingRows(movies', id) # {}
                   => ReservationRows(reservations, id) \subseteq reservations'
      ]_vars

C5_Witness ==
    \E r \in Requests :
        /\ op[r] = "delete_movie"
        /\ status[r] = 200
        /\ local[r].deleted # {}
        /\ ReservationRows(reservations, args[r].movie_id) = {}

C7_InvalidInputRejected ==
    /\ \A r \in Requests :
         ( /\ op[r] = "add_showing_movie"
           /\ pc[r] = "done"
           /\ MissingOrNonPositive(args[r]) ) => status[r] = 400
    /\ \A c \in created : c.seats > 0

\* C8: a reservation request naming a showing id that has no row is answered
\* 404 in the step that looks it up, and that step changes neither table.
C8_MissingShowingNotFound ==
    [][\A r \in Requests :
         ( /\ pc[r] = "idle"
           /\ op'[r] = "create_reservation"
           /\ ShowingRows(movies, args'[r].movie_id) = {} )
            => /\ pc'[r] = "done"
               /\ status'[r] = 404
               /\ movies' = movies
               /\ reservations' = reservations]_vars

C8_Witness ==
    \E r \in Requests :
        /\ op[r] = "create_reservation"
        /\ status[r] = 404
        /\ movies # {}

\* The status a step of request r on showing S yields, read off the rows of S
\* alone (and what r itself holds): 0 while the handler goes on.
StatusFromOwnShowing(r) ==
    LET id == args'[r].movie_id
        rows == ShowingRows(movies, id)
        refs == ReservationRows(reservations, id)
    IN  CASE pc[r] = "idle" /\ op'[r] = "create_reservation" ->
                IF rows = {} THEN 404
                ELSE IF \E m \in rows : m.seats <= 0 THEN 400 ELSE 0
          [] pc[r] = "idle" /\ op'[r] = "delete_movie" ->
                IF rows = {} THEN 404 ELSE 0
          [] pc[r] = "reservation_commit" ->
                IF rows = {} THEN 500 ELSE 201
          [] pc[r] = "delete_bulk" -> 0
          [] pc[r] = "delete_commit" ->
                IF rows = {} \/ refs \subseteq local[r].deleted THEN 200 ELSE 500

C10_NoOrphanReservation ==
    \A x \in reservations : ShowingRows(movies, x.movie_id) # {}

\* A reservation request that had loaded S finished after delete_showing(S)
\* committed.
C10_Witness ==
    \E r \in Requests, d \in Requests :
        /\ op[r] = "create_reservation"
        /\ status[r] = 500
        /\ op[d] = "delete_movie"
        /\ status[d] = 200
        /\ args[d].movie_id = args[r].movie_id

====
